---- MODULE Spec2Model ----
(***************************************************************************)
(* Forcing aggregation engine of NGIAB_data_preprocess:                    *)
(*   - chunk planner             forcings.py   get_index_chunks            *)
(*   - shared-memory stager      forcings.py   create_shared_memory        *)
(*   - parallel aggregator       forcings.py   process_chunk_shared,       *)
(*                                             weighted_sum_of_cells       *)
(*   - driver                    forcings.py   compute_zonal_stats         *)
(*   - cache manager             zarr_utils.py / dataset_utils.py          *)
(* Memory is counted in GiB, coverage in quarters of a cell, time in       *)
(* integer steps.                                                          *)
(***************************************************************************)
EXTENDS Integers, Sequences, FiniteSets, TLC

----------------------------------------------------------------------------
(* Bounds of the model                                                     *)

\* longest time axis of the gridded dataset
MaxT == 5
\* largest size of one timestep of one variable, in GiB
MaxStepBytes == 3

\* values psutil.virtual_memory().available may report, in GiB
MemAvail == {2, 5, 15, 30}

----------------------------------------------------------------------------
(* State                                                                   *)

\* the planner called on its own
VARIABLES p_T, p_step, p_avail, p_chunks, p_pc

pvars == <<p_T, p_step, p_avail, p_chunks, p_pc>>

\* one run of compute_zonal_stats
VARIABLES
    a_T,          \* length of the time axis of merged_data
    a_base,       \* the grid values
    a_gdf,        \* catchments with their cell weights
    a_cpu,        \* multiprocessing.cpu_count()
    a_data_vars,  \* merged_data.data_vars
    pc,           \* position of the driver
    err,          \* the exception that ended the run, or "none"
    num_partitions,
    cat_chunks,   \* the weight table split for the workers
    var_i,        \* position in `variables`
    time_chunks,  \* plan of the current variable
    chunk_i,      \* enumerate index i of the current chunk
    data_chunk,   \* time indices selected for the current chunk
    shm,          \* the shared region of the current chunk
    sub_chunks,   \* plan of the staging copy
    sub_i,        \* position in sub_chunks
    worker,       \* state of each pool task
    wres,         \* result of each pool task
    variable_data,
    temp_files,   \* files of forcings_dir / "temp"
    temp_dir,     \* whether the temp directory exists
    final,        \* forcings_dir / "forcings.nc"
    logged        \* "Forcing generation complete" was logged

avars == <<a_T, a_base, a_gdf, a_cpu, a_data_vars, pc, err, num_partitions,
           cat_chunks, var_i, time_chunks, chunk_i, data_chunk, shm,
           sub_chunks, sub_i, worker, wres, variable_data, temp_files,
           temp_dir, final, logged>>

ainputs == <<a_T, a_base, a_gdf, a_cpu, a_data_vars>>

\* the cache manager
VARIABLES
    c_entry,      \* "zarr": get_forcing_data, "cli": forcing_cli.main
    c_pc,         \* position of the cache manager
    c_req,        \* the request: start, end, forcing_vars, source, interpolate
    c_start,      \* local start_time
    c_end,        \* local end_time
    fs,           \* the cache file and the temporary files next to it
    c_cache0,     \* the cache file as the run found it
    c_stores,     \* the dataset being saved
    c_pass,       \* which save_dataset call of save_to_cache is running
    c_ret,        \* the dataset returned to the caller
    c_hit,        \* the returned dataset was read from the cache file
    c_runs        \* number of runs started

cvars == <<c_entry, c_pc, c_req, c_start, c_end, fs, c_cache0, c_stores,
           c_pass, c_ret, c_hit, c_runs>>

\* interpolate_nan_values and save_to_cache called on a dataset with values
VARIABLES
    i_ds,         \* the dataset passed in
    i_flag,       \* interpolate_nans
    i_pc,         \* position inside save_to_cache
    i_out,        \* the dataset after interpolate_nan_values alone
    i_stores,     \* the local `stores`
    i_file,       \* the file at cached_nc_path
    i_ret,        \* the dataset save_to_cache returns
    i_variables   \* the `variables` argument of interpolate_nan_values

ivars == <<i_ds, i_flag, i_pc, i_out, i_stores, i_file, i_ret, i_variables>>

vars == <<pvars, avars, cvars, ivars>>

----------------------------------------------------------------------------
(* Chunk planner: forcings.py get_index_chunks                             *)

\* hard cap on one chunk: 20 * 1024 * 1024 * 1024 bytes = 20 GiB
MemCap == 20

Min(a, b) == IF a <= b THEN a ELSE b

\* math.ceil(a / b) for a >= 0, b > 0
Ceil(a, b) == (a + b - 1) \div b

\* free_memory = min(available * 0.8, cap), kept exact as a number of fifths
FreeMemory5(avail) == Min(4 * avail, 5 * MemCap)

\* the quotient rounded down
NumChunks_floor(nbytes, avail) == (5 * nbytes) \div FreeMemory5(avail)

\* num_chunks = ceil(array_memory_usage / free_memory)
NumChunks(nbytes, avail) == Ceil(5 * nbytes, FreeMemory5(avail))

\* stride = max_index // num_chunks
Stride(max_index, nbytes, avail) == max_index \div NumChunks(nbytes, avail)

\* range(0, max_index, stride) as the sequence of its elements
RangeStarts(max_index, stride) ==
    [i \in 1..Ceil(max_index, stride) |-> (i - 1) * stride]

\* one element of index_chunks
ChunkOfStart(start, stride) == <<start, start + stride>>

\* a call that raises returns [err |-> the exception]
Raised(e) == [err |-> e]
IsError(x) == "err" \in DOMAIN x

\* the list of (start, end) pairs, or the error the call raises: a division
\* by zero when num_chunks is 0, range() refusing a step of 0
get_index_chunks(max_index, nbytes, avail) ==
    LET num_chunks == NumChunks(nbytes, avail)
        stride == Stride(max_index, nbytes, avail)
        chunk_start == RangeStarts(max_index, stride)
    IN  IF num_chunks = 0 THEN Raised("ZeroDivisionError")
        ELSE IF stride = 0 THEN Raised("ValueError")
        ELSE [chunks |-> [i \in 1..Len(chunk_start) |->
                            ChunkOfStart(chunk_start[i], stride)]]

\* a slice that takes its end index too
SliceIndices_inclusive(start, end, n) ==
    {t \in 0..(n - 1) : start <= t /\ t <= end}

\* data.isel(time=slice(start, end)) / array[start:end]: the indices selected
\* from an axis of length n (a slice is clamped to the axis)
SliceIndices(start, end, n) == {t \in 0..(n - 1) : start <= t /\ t < end}

----------------------------------------------------------------------------
(* Weighted mean of the cells of one catchment:                            *)
(* forcings.py weighted_sum_of_cells                                       *)

RECURSIVE GCD(_, _)
GCD(a, b) == IF b = 0 THEN a ELSE GCD(b, a % b)

Abs(a) == IF a < 0 THEN -a ELSE a

\* the missing-data value and the infinities, as fractions over 0
NaN == <<0, 0>>
Inf(sgn) == <<sgn, 0>>

\* a division guarded against 0 that yields 0 instead of the missing value
Quot_zero(n, d) ==
    IF d = 0 THEN <<0, 1>>
    ELSE LET g == GCD(Abs(n), Abs(d))
             sgn == IF d < 0 THEN -1 ELSE 1
         IN  <<sgn * (n \div g), sgn * (d \div g)>>

\* a float quotient n / d kept exact: a reduced fraction <<num, den>> with
\* den > 0; numpy gives nan for 0/0 and inf for x/0, with a warning only
Quot(n, d) ==
    IF d = 0 THEN (IF n = 0 THEN NaN ELSE Inf(IF n < 0 THEN -1 ELSE 1))
    ELSE LET g == GCD(Abs(n), Abs(d))
             sgn == IF d < 0 THEN -1 ELSE 1
         IN  <<sgn * (n \div g), sgn * (d \div g)>>

RECURSIVE SumSeq(_)
SumSeq(s) == IF s = <<>> THEN 0 ELSE s[1] + SumSeq(Tail(s))

\* the cell values summed without their coverage
WeightedRowSum_unweighted(row, cell_ids, factors) ==
    SumSeq([i \in 1..Len(cell_ids) |-> row[cell_ids[i] + 1]])

\* np.sum(flat_raster[:, cell_ids] * factors, axis=1)[t]; cell ids count
\* from 0, factors are coverages in quarters of a cell
WeightedRowSum(row, cell_ids, factors) ==
    SumSeq([i \in 1..Len(cell_ids) |-> row[cell_ids[i] + 1] * factors[i]])

\* the number of cells as the divisor: a plain mean
SumOfWeights_count(cell_ids, factors) == Len(cell_ids)

\* the divisor used by weighted_sum_of_cells: np.sum(factors)
SumOfWeights(cell_ids, factors) == SumSeq(factors)

weighted_sum_of_cells(flat_raster, cell_ids, factors) ==
    [t \in 1..Len(flat_raster) |->
        Quot(WeightedRowSum(flat_raster[t], cell_ids, factors),
             SumOfWeights(cell_ids, factors))]

----------------------------------------------------------------------------
(* Labelled arrays: [cats, times, vals] with vals[c][t] the value of       *)
(* catchment cats[c] at time times[t]                                      *)

RECURSIVE Flat(_)
Flat(ss) == IF ss = <<>> THEN <<>> ELSE ss[1] \o Flat(Tail(ss))

\* xr.concat(arrays, dim="catchment"); concatenating nothing is an error
ConcatCatchment(arrays) ==
    IF arrays = <<>> THEN Raised("ValueError")
    ELSE [cats  |-> Flat([i \in 1..Len(arrays) |-> arrays[i].cats]),
          times |-> arrays[1].times,
          vals  |-> Flat([i \in 1..Len(arrays) |-> arrays[i].vals])]

\* xr.concat(datasets, dim="time")
ConcatTime(arrays) ==
    IF arrays = <<>> THEN Raised("ValueError")
    ELSE [cats  |-> arrays[1].cats,
          times |-> Flat([i \in 1..Len(arrays) |-> arrays[i].times]),
          vals  |-> [c \in 1..Len(arrays[1].cats) |->
                        Flat([i \in 1..Len(arrays) |-> arrays[i].vals[c]])]]

\* the worker body, forcings.py process_chunk_shared: one weighted mean
\* series per catchment of the partition, in the order of the partition
process_chunk_shared(times, raster, chunk) ==
    ConcatCatchment(
        [k \in 1..Len(chunk) |->
            [cats  |-> <<chunk[k].id>>,
             times |-> times,
             vals  |-> <<weighted_sum_of_cells(raster, chunk[k].cell_id,
                                               chunk[k].coverage)>>]])

\* the split without the remainder: every part holds len // n rows
ArraySplitBounds_floor(len, n, k) ==
    LET q == len \div n
    IN  <<(k - 1) * q, k * q>>

\* np.array_split(rows, n): the first len % n parts hold len // n + 1 rows,
\* the others len // n
ArraySplitBounds(len, n, k) ==
    LET q == len \div n
        r == len % n
        lo == (k - 1) * q + Min(k - 1, r)
    IN  <<lo, lo + q + (IF k <= r THEN 1 ELSE 0)>>

array_split(rows, n) ==
    [k \in 1..n |->
        LET b == ArraySplitBounds(Len(rows), n, k)
        IN  SubSeq(rows, b[1] + 1, b[2])]

\* shared_array.reshape(time, -1) of one timestep: rows of the grid one
\* after the other, so cell id = y * width + x
Reshape(grid_step) == Flat(grid_step)


----------------------------------------------------------------------------
(* Inputs of one run of compute_zonal_stats                                *)

\* longest time axis of the dataset handed to compute_zonal_stats
MaxSteps == 5
\* largest multiprocessing.cpu_count()
MaxCpu == 3

\* the values of a 2x2 grid at the first timestep, grid[y][x]
GridBases ==
    { <<<<10, 20>>, <<30, 40>>>>,
      <<<<40, 30>>, <<20, 10>>>>,
      <<<<0, 5>>, <<0, 7>>>> }

\* size of one timestep of one variable: 4 float32 cells, one GiB each at
\* the scale of the model
StepBytes == 4

\* keys of the dict `variables` of compute_zonal_stats, in its order
VariableTable ==
    <<"LWDOWN", "PSFC", "Q2D", "RAINRATE", "SWDOWN", "T2D", "U2D", "V2D">>

\* the part of the table the model runs through
ModelledVars == {"LWDOWN", "RAINRATE"}

variables == SelectSeq(VariableTable, LAMBDA v : v \in ModelledVars)

VarOffset(v) == IF v = "RAINRATE" THEN 0 ELSE 1

\* weight tables as exact_extract returns them: one row per catchment with
\* the ids of the cells it intersects and their coverage in quarters
ScenarioTable ==
    << [id |-> "A", cell_id |-> <<0, 1>>, coverage |-> <<2, 2>>],
       [id |-> "B", cell_id |-> <<2>>,    coverage |-> <<4>>],
       [id |-> "C", cell_id |-> <<3, 1>>, coverage |-> <<1, 1>>] >>

WeightTables ==
    { ScenarioTable,
      << [id |-> "A", cell_id |-> <<0, 1>>, coverage |-> <<1, 3>>],
         [id |-> "Z", cell_id |-> <<>>,     coverage |-> <<>>],
         [id |-> "C", cell_id |-> <<3, 1>>, coverage |-> <<1, 1>>] >>,
      << [id |-> "Z", cell_id |-> <<2>>,       coverage |-> <<0>>],
         [id |-> "B", cell_id |-> <<0, 2, 3>>, coverage |-> <<1, 3, 4>>] >>,
      << [id |-> "B", cell_id |-> <<2>>, coverage |-> <<4>>] >> }

\* merged_data[v] at time index t (from 0): a grid[y][x]
SourceStep(base, v, t) ==
    [y \in 1..Len(base) |->
        [x \in 1..Len(base[y]) |-> base[y][x] + 100 * t + VarOffset(v)]]

ZeroStep(base) == [y \in 1..Len(base) |-> [x \in 1..Len(base[y]) |-> 0]]

\* a set of indices as the increasing sequence of its elements
RECURSIVE SortedSeq(_)
SortedSeq(S) ==
    IF S = {} THEN <<>>
    ELSE LET m == CHOOSE x \in S : \A y \in S : x <= y
         IN  <<m>> \o SortedSeq(S \ {m})

NoShm == [linked |-> FALSE, open |-> FALSE, buf |-> <<>>]
NoResult == [err |-> "pending"]
Absent == [state |-> "absent"]
Partial == [state |-> "partial"]
NoFiles == <<>>


Workers == 1..num_partitions

\* the variable of the current iteration of `for variable in variables`
variable == variables[var_i]

\* name of a file of the temp directory: f"{variable}_{i}.nc" for a chunk
\* partial, f"{variable}.nc" (i = -1) for a merged variable
PartialName(v, i) == [var |-> v, i |-> i]
MergedName(v) == [var |-> v, i |-> -1]

\* forcings_dir.glob("temp/*_*.nc"): names with an underscore; no key of
\* the variable table holds one
MatchesPartialGlob(name) == name.i # -1

\* what an earlier run that failed after merging PSFC left in the temp
\* directory: setup_directories (lines 503-507) unlinks the files of
\* forcings_dir only and keeps an existing temp directory
StaleScratch(gdf, T) ==
    MergedName("PSFC") :>
        [cats  |-> [k \in 1..Len(gdf) |-> gdf[k].id],
         times |-> [t \in 1..T |-> t - 1],
         vals  |-> [k \in 1..Len(gdf) |-> [t \in 1..T |-> <<7, 1>>]]]

AggInit ==
    /\ a_T \in 1..MaxSteps
    /\ a_base \in GridBases
    /\ a_gdf \in WeightTables
    /\ a_cpu \in 1..MaxCpu
    /\ a_data_vars \in SUBSET ModelledVars
    /\ pc = "weights"
    /\ err = "none"
    /\ num_partitions = 0
    /\ cat_chunks = <<>>
    /\ var_i = 1
    /\ time_chunks = <<>>
    /\ chunk_i = 0
    /\ data_chunk = <<>>
    /\ shm = NoShm
    /\ sub_chunks = <<>>
    /\ sub_i = 1
    /\ worker = <<>>
    /\ wres = <<>>
    /\ variable_data = <<>>
    /\ temp_files \in {NoFiles, StaleScratch(a_gdf, a_T)}
    /\ temp_dir = TRUE
    /\ final = Absent
    /\ logged = FALSE

\* the run ends with an exception
Abort(e) ==
    /\ pc' = "aborted"
    /\ err' = e

----------------------------------------------------------------------------
(* The driver: forcings.py compute_zonal_stats                             *)

\* lines 318-337: the partition count, the weight table computed partition
\* by partition and concatenated, and its split for the workers
NumPartitions(cpu_count, n_gdf) ==
    IF cpu_count - 1 > n_gdf THEN n_gdf ELSE cpu_count - 1

get_cell_weights_parallel(gdf, n) == Flat(array_split(gdf, n))

ComputeWeights ==
    /\ pc = "weights"
    /\ LET n == NumPartitions(a_cpu, Len(a_gdf))
       IN  /\ num_partitions' = n
           /\ IF n <= 0
              THEN Abort("ValueError") /\ UNCHANGED cat_chunks
              ELSE IF a_T = 0
              THEN Abort("IndexError") /\ UNCHANGED cat_chunks
              ELSE IF "RAINRATE" \notin a_data_vars
              THEN Abort("KeyError") /\ UNCHANGED cat_chunks
              ELSE /\ cat_chunks' =
                        array_split(get_cell_weights_parallel(a_gdf, n), n)
                   /\ pc' = "next_var"
                   /\ err' = err
    /\ UNCHANGED <<pvars, cvars, ivars, ainputs, var_i, time_chunks, chunk_i, data_chunk, shm,
                   sub_chunks, sub_i, worker, wres, variable_data,
                   temp_files, temp_dir, final, logged>>

\* lines 360-362: a variable the dataset does not hold is skipped
SkipVariable ==
    /\ pc = "next_var"
    /\ var_i <= Len(variables)
    /\ variable \notin a_data_vars
    /\ var_i' = var_i + 1
    /\ UNCHANGED <<pvars, cvars, ivars, ainputs, pc, err, num_partitions, cat_chunks, time_chunks,
                   chunk_i, data_chunk, shm, sub_chunks, sub_i, worker, wres,
                   variable_data, temp_files, temp_dir, final, logged>>

\* line 365: the time axis of the variable is planned with the memory that
\* is available now
PlanChunks ==
    /\ pc = "next_var"
    /\ var_i <= Len(variables)
    /\ variable \in a_data_vars
    /\ \E avail \in MemAvail :
        LET plan == get_index_chunks(a_T, a_T * StepBytes, avail)
        IN  IF IsError(plan)
            THEN Abort(plan.err) /\ UNCHANGED <<time_chunks, chunk_i>>
            ELSE /\ time_chunks' = plan.chunks
                 /\ chunk_i' = 0
                 /\ pc' = "chunk"
                 /\ err' = err
    /\ UNCHANGED <<pvars, cvars, ivars, ainputs, num_partitions, cat_chunks, var_i, data_chunk,
                   shm, sub_chunks, sub_i, worker, wres, variable_data,
                   temp_files, temp_dir, final, logged>>

\* lines 369-373 and 184-186: the chunk is selected and a region of its
\* size is created; the creator holds it open
CreateShm ==
    /\ pc = "chunk"
    /\ chunk_i < Len(time_chunks)
    /\ LET start == time_chunks[chunk_i + 1][1]
           end == time_chunks[chunk_i + 1][2]
           sel == SortedSeq(SliceIndices(start, end, a_T))
       IN  /\ data_chunk' = sel
           /\ IF sel = <<>>
              THEN Abort("ValueError") /\ shm' = shm
              ELSE /\ shm' = [linked |-> TRUE, open |-> TRUE,
                              buf |-> [k \in 1..Len(sel) |-> ZeroStep(a_base)]]
                   /\ pc' = "stage_plan"
                   /\ err' = err
    /\ UNCHANGED <<pvars, cvars, ivars, ainputs, num_partitions, cat_chunks, var_i, time_chunks,
                   chunk_i, sub_chunks, sub_i, worker, wres, variable_data,
                   temp_files, temp_dir, final, logged>>

\* line 189: the copy is planned with the memory that is available now
StagePlan ==
    /\ pc = "stage_plan"
    /\ \E avail \in MemAvail :
        LET plan == get_index_chunks(Len(data_chunk),
                                     Len(data_chunk) * StepBytes, avail)
        IN  IF IsError(plan)
            THEN Abort(plan.err) /\ UNCHANGED <<sub_chunks, sub_i>>
            ELSE /\ sub_chunks' = plan.chunks
                 /\ sub_i' = 1
                 /\ pc' = "stage_copy"
                 /\ err' = err
    /\ UNCHANGED <<pvars, cvars, ivars, ainputs, num_partitions, cat_chunks, var_i, time_chunks,
                   chunk_i, data_chunk, shm, worker, wres, variable_data,
                   temp_files, temp_dir, final, logged>>

\* line 191: shared_array[start:end] = lazy_array[start:end]
CopiedBuf(buf, start, end) ==
    [k \in 1..Len(buf) |->
        IF (k - 1) \in SliceIndices(start, end, Len(buf))
        THEN SourceStep(a_base, variable, data_chunk[k])
        ELSE buf[k]]

StageCopy ==
    /\ pc = "stage_copy"
    /\ sub_i <= Len(sub_chunks)
    /\ shm' = [shm EXCEPT !.buf =
                  CopiedBuf(shm.buf, sub_chunks[sub_i][1], sub_chunks[sub_i][2])]
    /\ sub_i' = sub_i + 1
    /\ UNCHANGED <<pvars, cvars, ivars, ainputs, pc, err, num_partitions, cat_chunks, var_i,
                   time_chunks, chunk_i, data_chunk, sub_chunks, worker, wres,
                   variable_data, temp_files, temp_dir, final, logged>>

\* reading the lazy slice fails (I/O, memory)
StageCopyRaise ==
    /\ pc = "stage_copy"
    /\ sub_i <= Len(sub_chunks)
    /\ Abort("OSError")
    /\ UNCHANGED <<pvars, cvars, ivars, ainputs, num_partitions, cat_chunks, var_i, time_chunks,
                   chunk_i, data_chunk, shm, sub_chunks, sub_i, worker, wres,
                   variable_data, temp_files, temp_dir, final, logged>>

\* lines 193-196 and 374-380: the copy is over, the pool is created and the
\* partitions are handed out
PoolStart ==
    /\ pc = "stage_copy"
    /\ sub_i > Len(sub_chunks)
    /\ worker' = [w \in Workers |-> "idle"]
    /\ wres' = [w \in Workers |-> NoResult]
    /\ pc' = "map"
    /\ UNCHANGED <<pvars, cvars, ivars, ainputs, err, num_partitions, cat_chunks, var_i,
                   time_chunks, chunk_i, data_chunk, shm, sub_chunks, sub_i,
                   variable_data, temp_files, temp_dir, final, logged>>

\* line 229: a worker opens the region by name
WorkerOpen(w) ==
    /\ pc = "map"
    /\ worker[w] = "idle"
    /\ worker' = [worker EXCEPT ![w] = IF shm.linked THEN "open" ELSE "failed"]
    /\ UNCHANGED <<pvars, cvars, ivars, ainputs, pc, err, num_partitions, cat_chunks, var_i,
                   time_chunks, chunk_i, data_chunk, shm, sub_chunks, sub_i,
                   wres, variable_data, temp_files, temp_dir, final, logged>>

\* line 230: the region seen as (time, flattened cell)
RasterView(buf) == [k \in 1..Len(buf) |-> Reshape(buf[k])]

\* lines 231-244: the worker reads the region and computes its partition
WorkerCompute(w) ==
    /\ pc = "map"
    /\ worker[w] = "open"
    /\ LET r == process_chunk_shared(data_chunk, RasterView(shm.buf),
                                     cat_chunks[w])
       IN  /\ wres' = [wres EXCEPT ![w] = r]
           /\ worker' = [worker EXCEPT ![w] =
                            IF IsError(r) THEN "failed" ELSE "computed"]
    /\ UNCHANGED <<pvars, cvars, ivars, ainputs, pc, err, num_partitions, cat_chunks, var_i,
                   time_chunks, chunk_i, data_chunk, shm, sub_chunks, sub_i,
                   variable_data, temp_files, temp_dir, final, logged>>

\* lines 245-246: the worker closes its handle and returns
WorkerClose(w) ==
    /\ pc = "map"
    /\ worker[w] = "computed"
    /\ worker' = [worker EXCEPT ![w] = "done"]
    /\ UNCHANGED <<pvars, cvars, ivars, ainputs, pc, err, num_partitions, cat_chunks, var_i,
                   time_chunks, chunk_i, data_chunk, shm, sub_chunks, sub_i,
                   wres, variable_data, temp_files, temp_dir, final, logged>>

\* a worker raises while it holds the region
WorkerRaise(w) ==
    /\ pc = "map"
    /\ worker[w] = "open"
    /\ worker' = [worker EXCEPT ![w] = "failed"]
    /\ UNCHANGED <<pvars, cvars, ivars, ainputs, pc, err, num_partitions, cat_chunks, var_i,
                   time_chunks, chunk_i, data_chunk, shm, sub_chunks, sub_i,
                   wres, variable_data, temp_files, temp_dir, final, logged>>

\* the driver goes on as soon as one task has returned
PoolMapReturns_first == \E w \in Workers : worker[w] = "done"

\* line 381: pool.map returns once every task has returned
PoolMapReturns == \A w \in Workers : worker[w] = "done"

PoolJoin ==
    /\ pc = "map"
    /\ PoolMapReturns
    /\ variable_data' = wres
    /\ pc' = "close"
    /\ UNCHANGED <<pvars, cvars, ivars, ainputs, err, num_partitions, cat_chunks, var_i,
                   time_chunks, chunk_i, data_chunk, shm, sub_chunks, sub_i,
                   worker, wres, temp_files, temp_dir, final, logged>>

\* the error of a task is dropped: the failed partitions count as returned
\* with no catchment, and the driver goes on with those that succeeded
PoolRaise_dropped ==
    /\ pc = "map"
    /\ \E w \in Workers : worker[w] = "failed"
    /\ \A w \in Workers : worker[w] \in {"done", "failed"}
    /\ worker' = [w \in Workers |-> "done"]
    /\ wres' = [w \in Workers |->
                  IF worker[w] = "failed"
                  THEN [cats |-> <<>>, times |-> data_chunk, vals |-> <<>>]
                  ELSE wres[w]]
    /\ UNCHANGED <<pvars, cvars, ivars, ainputs, pc, err, num_partitions, cat_chunks, var_i,
                   time_chunks, chunk_i, data_chunk, shm, sub_chunks, sub_i,
                   variable_data, temp_files, temp_dir, final, logged>>

\* line 381: pool.map re-raises the error of a task; leaving the `with`
\* block terminates the tasks still running, and the exception leaves
\* compute_zonal_stats
PoolRaise ==
    /\ pc = "map"
    /\ \E w \in Workers : worker[w] = "failed"
    /\ worker' = [w \in Workers |->
                    IF worker[w] \in {"done", "failed"} THEN worker[w]
                    ELSE "terminated"]
    /\ Abort("WorkerError")
    /\ UNCHANGED <<pvars, cvars, ivars, ainputs, num_partitions, cat_chunks, var_i, time_chunks,
                   chunk_i, data_chunk, shm, sub_chunks, sub_i, wres,
                   variable_data, temp_files, temp_dir, final, logged>>

\* line 384
ShmClose ==
    /\ pc = "close"
    /\ shm' = [shm EXCEPT !.open = FALSE]
    /\ pc' = "unlink"
    /\ UNCHANGED <<pvars, cvars, ivars, ainputs, err, num_partitions, cat_chunks, var_i,
                   time_chunks, chunk_i, data_chunk, sub_chunks, sub_i,
                   worker, wres, variable_data, temp_files, temp_dir, final,
                   logged>>

\* line 385
ShmUnlink ==
    /\ pc = "unlink"
    /\ shm' = [shm EXCEPT !.linked = FALSE]
    /\ pc' = "persist"
    /\ UNCHANGED <<pvars, cvars, ivars, ainputs, err, num_partitions, cat_chunks, var_i,
                   time_chunks, chunk_i, data_chunk, sub_chunks, sub_i,
                   worker, wres, variable_data, temp_files, temp_dir, final,
                   logged>>

\* the partial is written and the same chunk is taken again
Persist_again ==
    /\ pc = "persist"
    /\ temp_files' = (PartialName(variable, chunk_i)
                        :> ConcatCatchment(variable_data)) @@ temp_files
    /\ variable_data' = <<>>
    /\ pc' = "chunk"
    /\ UNCHANGED <<pvars, cvars, ivars, ainputs, err, num_partitions, cat_chunks, var_i,
                   time_chunks, chunk_i, data_chunk, shm, sub_chunks, sub_i, worker,
                   wres, temp_dir, final, logged>>

\* lines 387-394: the partitions are concatenated and the partial result of
\* the chunk is written to temp/{variable}_{i}.nc
Persist ==
    /\ pc = "persist"
    /\ temp_files' = (PartialName(variable, chunk_i)
                        :> ConcatCatchment(variable_data)) @@ temp_files
    /\ variable_data' = <<>>
    /\ chunk_i' = chunk_i + 1
    /\ pc' = "chunk"
    /\ UNCHANGED <<pvars, cvars, ivars, ainputs, err, num_partitions, cat_chunks, var_i,
                   time_chunks, data_chunk, shm, sub_chunks, sub_i, worker,
                   wres, temp_dir, final, logged>>

\* line 394: writing the partial result fails (disk full, I/O)
PersistRaise ==
    /\ pc = "persist"
    /\ Abort("OSError")
    /\ UNCHANGED <<pvars, cvars, ivars, ainputs, num_partitions, cat_chunks, var_i, time_chunks,
                   chunk_i, data_chunk, shm, sub_chunks, sub_i, worker, wres,
                   variable_data, temp_files, temp_dir, final, logged>>

\* the partials opened last chunk first
OpenPartials_reversed(files, v, n) ==
    [k \in 1..n |-> files[PartialName(v, n - k)]]

\* line 396: the partials of the variable, in the order of range(len(...))
OpenPartials(files, v, n) == [k \in 1..n |-> files[PartialName(v, k - 1)]]

\* lines 396-398
MergedVariable(files, v, n) == ConcatTime(OpenPartials(files, v, n))

\* every file of the temp directory but the one just merged is unlinked
WithoutPartials_others(files) ==
    [name \in {m \in DOMAIN files : m = MergedName(variable)} |-> files[name]]

\* lines 403-404
WithoutPartials(files) ==
    [name \in {m \in DOMAIN files : ~MatchesPartialGlob(m)} |-> files[name]]

\* lines 395-405: after the last chunk the partials are merged into
\* temp/{variable}.nc and deleted
MergeVariable ==
    /\ pc = "chunk"
    /\ chunk_i >= Len(time_chunks)
    /\ temp_files' = WithoutPartials(
            (MergedName(variable)
                :> MergedVariable(temp_files, variable, Len(time_chunks)))
            @@ temp_files)
    /\ var_i' = var_i + 1
    /\ pc' = "next_var"
    /\ UNCHANGED <<pvars, cvars, ivars, ainputs, err, num_partitions, cat_chunks, time_chunks,
                   chunk_i, data_chunk, shm, sub_chunks, sub_i, worker, wres,
                   variable_data, temp_dir, final, logged>>

\* lines 396-397: opening or concatenating the partials fails
MergeRaise ==
    /\ pc = "chunk"
    /\ chunk_i >= Len(time_chunks)
    /\ Abort("OSError")
    /\ UNCHANGED <<pvars, cvars, ivars, ainputs, num_partitions, cat_chunks, var_i, time_chunks,
                   chunk_i, data_chunk, shm, sub_chunks, sub_i, worker, wres,
                   variable_data, temp_files, temp_dir, final, logged>>

\* lines 406-413: after the last variable the success message is logged
LogComplete ==
    /\ pc = "next_var"
    /\ var_i > Len(variables)
    /\ logged' = TRUE
    /\ pc' = "write_outputs"
    /\ UNCHANGED <<pvars, cvars, ivars, ainputs, err, num_partitions, cat_chunks, var_i,
                   time_chunks, chunk_i, data_chunk, shm, sub_chunks, sub_i,
                   worker, wres, variable_data, temp_files, temp_dir, final>>

----------------------------------------------------------------------------
(* Output assembly: forcings.py write_outputs                              *)

\* the dict `variables`: name in the gridded data -> name in the output
Rename(v) ==
    CASE v = "LWDOWN" -> "DLWRF_surface"
      [] v = "PSFC" -> "PRES_surface"
      [] v = "Q2D" -> "SPFH_2maboveground"
      [] v = "RAINRATE" -> "precip_rate"
      [] v = "SWDOWN" -> "DSWRF_surface"
      [] v = "T2D" -> "TMP_2maboveground"
      [] v = "U2D" -> "UGRD_10maboveground"
      [] v = "V2D" -> "VGRD_10maboveground"

\* seconds per hour, the factor of add_APCP_SURFACE_to_dataset
PrecipFactor == 3600

ScaleVal(x, k) == IF x[2] = 0 THEN x ELSE Quot(x[1] * k, x[2])

ScaleVals(vals, k) ==
    [c \in 1..Len(vals) |-> [t \in 1..Len(vals[c]) |-> ScaleVal(vals[c][t], k)]]

\* lines 445-446: every file of the temp directory is opened and merged
FilesOfVar(files, v) == {name \in DOMAIN files : name.var = v}

MergedVals(files, v) ==
    IF Cardinality(FilesOfVar(files, v)) = 1
    THEN files[CHOOSE name \in FilesOfVar(files, v) : TRUE].vals
    ELSE <<>>

\* lines 446-487: the dataset written to forcings.nc
FinalDataset(files) ==
    LET vs == {name.var : name \in DOMAIN files}
        any == files[CHOOSE name \in DOMAIN files : TRUE]
        outs == {Rename(v) : v \in vs} \cup {"APCP_surface"}
    IN  [state |-> "complete",
         ids  |-> any.cats,
         Time |-> [c \in 1..Len(any.cats) |-> any.times],
         data |-> [o \in outs |->
                     IF o = "APCP_surface"
                     THEN ScaleVals(MergedVals(files, "RAINRATE"), PrecipFactor)
                     ELSE MergedVals(files,
                            CHOOSE v \in vs : Rename(v) = o)]]

\* lines 443-489: the dataset is assembled and the write of forcings.nc
\* starts, under its final name
WriteFinalBegin ==
    /\ pc = "write_outputs"
    /\ IF MergedName("RAINRATE") \notin DOMAIN temp_files
       THEN Abort("KeyError") /\ final' = final
       ELSE /\ final' = Partial
            /\ pc' = "final_write"
            /\ err' = err
    /\ UNCHANGED <<pvars, cvars, ivars, ainputs, num_partitions, cat_chunks, var_i, time_chunks,
                   chunk_i, data_chunk, shm, sub_chunks, sub_i, worker, wres,
                   variable_data, temp_files, temp_dir, logged>>

\* line 489 returns
WriteFinalEnd ==
    /\ pc = "final_write"
    /\ final' = FinalDataset(temp_files)
    /\ pc' = "cleanup"
    /\ UNCHANGED <<pvars, cvars, ivars, ainputs, err, num_partitions, cat_chunks, var_i,
                   time_chunks, chunk_i, data_chunk, shm, sub_chunks, sub_i,
                   worker, wres, variable_data, temp_files, temp_dir, logged>>

\* line 489 raises (disk full, I/O)
WriteFinalRaise ==
    /\ pc = "final_write"
    /\ Abort("OSError")
    /\ UNCHANGED <<pvars, cvars, ivars, ainputs, num_partitions, cat_chunks, var_i, time_chunks,
                   chunk_i, data_chunk, shm, sub_chunks, sub_i, worker, wres,
                   variable_data, temp_files, temp_dir, final, logged>>

\* lines 495-497: the temp files and the temp directory are removed
Cleanup ==
    /\ pc = "cleanup"
    /\ temp_files' = NoFiles
    /\ temp_dir' = FALSE
    /\ pc' = "done"
    /\ UNCHANGED <<pvars, cvars, ivars, ainputs, err, num_partitions, cat_chunks, var_i,
                   time_chunks, chunk_i, data_chunk, shm, sub_chunks, sub_i,
                   worker, wres, variable_data, final, logged>>

----------------------------------------------------------------------------
(* Cache manager: zarr_utils.py get_forcing_data and compute_store;        *)
(* dataset_utils.py check_local_cache, save_to_cache and save_dataset,     *)
(* as forcing_cli.py main calls them                                       *)

\* the requests range over the instants 0..MaxTime
MaxTime == 3
\* runs on the same cache file
MaxRuns == 2

\* the instants the remote sources hold
SourceTimes == {1, 2}

\* default of load_zarr_datasets: the zarr stores of the source
ZarrVars == {"lwdown", "precip"}

\* the variable held by the store {var}.zarr
ZarrToData(v) == IF v = "precip" THEN "RAINRATE" ELSE "LWDOWN"

\* zarr_utils.py lines 169-171: var.lower().replace("rainrate", "precip")
CachedVarName(v) ==
    CASE v = "RAINRATE" -> "precip"
      [] v = "LWDOWN" -> "lwdown"
      [] OTHER -> v

\* load_zarr_datasets: `if not forcing_vars` takes every store
LoadedVars(forcing_vars) == IF forcing_vars = {} THEN ZarrVars ELSE forcing_vars

\* a dataset: the `name` attribute ("" when it has none), its time
\* coordinate, its variables, the run that fetched it from the source and
\* whether it holds missing values
NoDs == [name |-> "", times |-> {}, vars |-> {}, run |-> 0, nans |-> FALSE]

\* load_zarr_datasets(forcing_vars), fetched in run n
ZarrSource(forcing_vars, n) ==
    [name |-> "", times |-> SourceTimes,
     vars |-> {ZarrToData(v) : v \in LoadedVars(forcing_vars)},
     run |-> n, nans |-> TRUE]

\* datasets.py load_v3_retrospective_zarr and load_aorc_zarr
CliSource(source, n) ==
    IF source = "aorc"
    THEN [name |-> "aorc_1km_zarr", times |-> SourceTimes,
          vars |-> {"APCP_surface", "DLWRF_surface"}, run |-> n, nans |-> TRUE]
    ELSE [name |-> "v3_retrospective_zarr", times |-> SourceTimes,
          vars |-> {"precip_rate", "DLWRF_surface"}, run |-> n, nans |-> TRUE]

SetMin(S) == CHOOSE x \in S : \A y \in S : x <= y
SetMax(S) == CHOOSE x \in S : \A y \in S : x >= y

\* validate_time_range: the requested times clamped to the dataset
validate_time_range(ds, start_time, end_time) ==
    << IF start_time < SetMin(ds.times) THEN SetMin(ds.times) ELSE start_time,
       IF end_time > SetMax(ds.times) THEN SetMax(ds.times) ELSE end_time >>

\* clip_dataset_to_bounds: dataset.sel(time=slice(start_time, end_time))
\* after validate_time_range
clip_dataset_to_bounds(ds, start_time, end_time) ==
    LET v == validate_time_range(ds, start_time, end_time)
    IN  [ds EXCEPT !.times = {t \in ds.times : v[1] <= t /\ t <= v[2]}]

\* only the end of the request compared with the cache
range_in_cache_zarr_end_only(cached, start_time, end_time) ==
    SetMax(cached.times) >= end_time

\* zarr_utils.py lines 154-156
range_in_cache_zarr(cached, start_time, end_time) ==
    SetMin(cached.times) <= start_time /\ SetMax(cached.times) >= end_time

\* dataset_utils.py lines 233-235
range_in_cache_local(cached, start_time, end_time) ==
    SetMin(cached.times) <= start_time /\ SetMax(cached.times) >= end_time

\* zarr_utils.py lines 165-175: only a given forcing_vars is compared
missing_vars_zarr(forcing_vars, cached) ==
    IF forcing_vars # {}
    THEN forcing_vars \ {CachedVarName(v) : v \in cached.vars}
    ELSE {}

\* dataset_utils.py lines 242-245
missing_vars_local(remote, cached) == remote.vars \ cached.vars

\* dataset_utils.py lines 226-231
name_matches(cached, remote) ==
    /\ cached.name # ""
    /\ remote.name # ""
    /\ cached.name = remote.name

\* interpolate_nan_values seen on the summary of a dataset: whether missing
\* values are left depends on the series (see func_interpolate_na below)
MissingAfterInterpolation(ds) == IF ds.nans THEN BOOLEAN ELSE {FALSE}

FAbsent == [state |-> "absent", ds |-> NoDs]
FPartial == [state |-> "partial", ds |-> NoDs]
FComplete(ds) == [state |-> "complete", ds |-> ds]

\* the dataset written straight to the cache path
SavingPath_direct == "cache"

\* save_dataset line 168: the path the dataset is written to
SavingPath == "saving"
\* compute_store line 116
DownloadingPath == "downloading"

Requests(entry) ==
    {r \in [start : 0..MaxTime, end : 0..MaxTime,
            vars : SUBSET ZarrVars, source : {"nwm", "aorc"},
            interpolate : BOOLEAN] :
        /\ r.start <= r.end
        /\ entry = "zarr" => (r.source = "nwm" /\ r.interpolate)
        /\ entry = "cli" => r.vars = {}}

CacheInit ==
    /\ c_entry \in {"zarr", "cli"}
    /\ c_pc = "idle"
    /\ c_req \in {[start |-> 0, end |-> 0, vars |-> {}, source |-> "nwm",
                   interpolate |-> TRUE]}
    /\ c_start = 0
    /\ c_end = 0
    /\ fs = [f \in {"cache", "downloading", "saving"} |-> FAbsent]
    /\ c_cache0 = FAbsent
    /\ c_stores = NoDs
    /\ c_pass = 0
    /\ c_ret = NoDs
    /\ c_hit = FALSE
    /\ c_runs = 0

CacheAbort == c_pc' = "aborted"

\* a run starts: create_forcings calls get_forcing_data, or forcing_cli
\* main reaches line 86
StartRun ==
    /\ c_pc \in {"idle", "returned", "aborted", "crashed"}
    /\ c_runs < MaxRuns
    /\ \E r \in Requests(c_entry) :
        /\ c_req' = r
        /\ c_start' = r.start
        /\ c_end' = r.end
    /\ c_runs' = c_runs + 1
    /\ c_cache0' = fs["cache"]
    /\ c_stores' = NoDs
    /\ c_pass' = 0
    /\ c_ret' = NoDs
    /\ c_hit' = FALSE
    /\ c_pc' = IF c_entry = "zarr" THEN "z_check" ELSE "l_check"
    /\ UNCHANGED <<pvars, avars, ivars, c_entry, fs>>

\* get_forcing_data lines 147-188: the cache file is checked, then used or
\* removed
ZCheck ==
    /\ c_pc = "z_check"
    /\ LET file == fs["cache"]
           cached == file.ds
       IN  IF file.state = "absent"
           THEN /\ c_pc' = "z_load"
                /\ UNCHANGED <<c_start, c_end, fs, c_ret, c_hit>>
           ELSE IF file.state = "partial" \/ cached.times = {}
           THEN /\ CacheAbort
                /\ UNCHANGED <<c_start, c_end, fs, c_ret, c_hit>>
           ELSE
             LET in_range == range_in_cache_zarr(cached, c_start, c_end)
                 clamped == IF in_range THEN <<c_start, c_end>>
                            ELSE validate_time_range(ZarrSource({}, c_runs),
                                                     c_start, c_end)
                 missing == missing_vars_zarr(c_req.vars, cached)
             IN  /\ c_start' = clamped[1]
                 /\ c_end' = clamped[2]
                 /\ IF in_range /\ missing = {}
                    THEN /\ c_ret' = clip_dataset_to_bounds(cached, clamped[1],
                                                            clamped[2])
                         /\ c_hit' = TRUE
                         /\ c_pc' = "returned"
                         /\ fs' = fs
                    ELSE /\ fs' = [fs EXCEPT !["cache"] = FAbsent]
                         /\ c_pc' = "z_load"
                         /\ UNCHANGED <<c_ret, c_hit>>
    /\ UNCHANGED <<pvars, avars, ivars, c_entry, c_req, c_cache0, c_stores, c_pass,
                   c_runs>>

\* lines 190-195: the stores are opened and clipped
ZLoad ==
    /\ c_pc = "z_load"
    /\ c_stores' = clip_dataset_to_bounds(ZarrSource(c_req.vars, c_runs),
                                          c_start, c_end)
    /\ c_pc' = "z_write_begin"
    /\ UNCHANGED <<pvars, avars, ivars, c_entry, c_req, c_start, c_end, fs, c_cache0,
                   c_pass, c_ret, c_hit, c_runs>>

\* the source cannot be reached
ZLoadRaise ==
    /\ c_pc = "z_load"
    /\ CacheAbort
    /\ UNCHANGED <<pvars, avars, ivars, c_entry, c_req, c_start, c_end, fs, c_cache0,
                   c_stores, c_pass, c_ret, c_hit, c_runs>>

\* compute_store lines 116-129: a stale temporary file is removed and the
\* write of the new one starts
ZWriteBegin ==
    /\ c_pc = "z_write_begin"
    /\ fs' = [fs EXCEPT ![DownloadingPath] = FPartial]
    /\ c_pc' = "z_write"
    /\ UNCHANGED <<pvars, avars, ivars, c_entry, c_req, c_start, c_end, c_cache0,
                   c_stores, c_pass, c_ret, c_hit, c_runs>>

\* line 132: the write is complete
ZWriteEnd ==
    /\ c_pc = "z_write"
    /\ fs' = [fs EXCEPT ![DownloadingPath] = FComplete(c_stores)]
    /\ c_pc' = "z_rename"
    /\ UNCHANGED <<pvars, avars, ivars, c_entry, c_req, c_start, c_end, c_cache0,
                   c_stores, c_pass, c_ret, c_hit, c_runs>>

\* line 132: the download or the write fails
ZWriteRaise ==
    /\ c_pc = "z_write"
    /\ CacheAbort
    /\ UNCHANGED <<pvars, avars, ivars, c_entry, c_req, c_start, c_end, fs, c_cache0,
                   c_stores, c_pass, c_ret, c_hit, c_runs>>

\* os.rename(src, dst); a rename onto itself changes nothing
Renamed(files, src, dst) ==
    IF src = dst THEN files
    ELSE [files EXCEPT ![dst] = files[src], ![src] = FAbsent]

\* line 134
ZRename ==
    /\ c_pc = "z_rename"
    /\ fs' = Renamed(fs, DownloadingPath, "cache")
    /\ c_pc' = "z_open"
    /\ UNCHANGED <<pvars, avars, ivars, c_entry, c_req, c_start, c_end, c_cache0,
                   c_stores, c_pass, c_ret, c_hit, c_runs>>

\* lines 136 and 200: the new cache file is opened and returned
ZReturn ==
    /\ c_pc = "z_open"
    /\ c_ret' = fs["cache"].ds
    /\ c_pc' = "returned"
    /\ UNCHANGED <<pvars, avars, ivars, c_entry, c_req, c_start, c_end, fs, c_cache0,
                   c_stores, c_pass, c_hit, c_runs>>

\* forcing_cli.py lines 86-96 with check_local_cache: the cache file is
\* used when its name, its time range and its variables fit; if not, it is
\* left where it is and the clipped source becomes the dataset to save
LCheck ==
    /\ c_pc = "l_check"
    /\ LET file == fs["cache"]
           cached == file.ds
           remote == CliSource(c_req.source, c_runs)
           miss == /\ c_stores' = clip_dataset_to_bounds(remote, c_start, c_end)
                   /\ c_pass' = 1
                   /\ c_pc' = "save_begin"
                   /\ UNCHANGED <<c_ret, c_hit>>
       IN  IF file.state = "absent" THEN miss
           ELSE IF file.state = "partial"
           THEN CacheAbort /\ UNCHANGED <<c_stores, c_pass, c_ret, c_hit>>
           ELSE IF ~name_matches(cached, remote) THEN miss
           ELSE IF cached.times = {}
           THEN CacheAbort /\ UNCHANGED <<c_stores, c_pass, c_ret, c_hit>>
           ELSE IF ~range_in_cache_local(cached, c_start, c_end) THEN miss
           ELSE IF missing_vars_local(remote, cached) # {} THEN miss
           ELSE /\ c_ret' = clip_dataset_to_bounds(cached, c_start, c_end)
                /\ c_hit' = TRUE
                /\ c_pc' = "returned"
                /\ UNCHANGED <<c_stores, c_pass>>
    /\ UNCHANGED <<pvars, avars, ivars, c_entry, c_req, c_start, c_end, fs, c_cache0,
                   c_runs>>

\* save_dataset lines 165-173: a stale temporary file is removed and the
\* write of the new one starts
SaveBegin ==
    /\ c_pc = "save_begin"
    /\ fs' = [fs EXCEPT ![SavingPath] = FPartial]
    /\ c_pc' = "save_write"
    /\ UNCHANGED <<pvars, avars, ivars, c_entry, c_req, c_start, c_end, c_cache0,
                   c_stores, c_pass, c_ret, c_hit, c_runs>>

\* line 178: the write is complete
SaveEnd ==
    /\ c_pc = "save_write"
    /\ fs' = [fs EXCEPT ![SavingPath] = FComplete(c_stores)]
    /\ c_pc' = "save_rename"
    /\ UNCHANGED <<pvars, avars, ivars, c_entry, c_req, c_start, c_end, c_cache0,
                   c_stores, c_pass, c_ret, c_hit, c_runs>>

\* line 178: the fetch or the write fails
SaveRaise ==
    /\ c_pc = "save_write"
    /\ CacheAbort
    /\ UNCHANGED <<pvars, avars, ivars, c_entry, c_req, c_start, c_end, fs, c_cache0,
                   c_stores, c_pass, c_ret, c_hit, c_runs>>

\* line 179
SaveRename ==
    /\ c_pc = "save_rename"
    /\ fs' = Renamed(fs, SavingPath, "cache")
    /\ c_pc' = "reopen"
    /\ UNCHANGED <<pvars, avars, ivars, c_entry, c_req, c_start, c_end, c_cache0,
                   c_stores, c_pass, c_ret, c_hit, c_runs>>

\* save_to_cache lines 199-206: the saved file is opened again; after the
\* first save the missing values are interpolated and the result is saved
\* a second time
Reopen ==
    /\ c_pc = "reopen"
    /\ IF c_pass = 1 /\ c_req.interpolate
       THEN /\ \E left \in MissingAfterInterpolation(fs["cache"].ds) :
                    c_stores' = [fs["cache"].ds EXCEPT !.nans = left]
            /\ c_pass' = 2
            /\ c_pc' = "save_begin"
            /\ c_ret' = c_ret
       ELSE /\ c_ret' = fs["cache"].ds
            /\ c_pc' = "returned"
            /\ UNCHANGED <<c_stores, c_pass>>
    /\ UNCHANGED <<pvars, avars, ivars, c_entry, c_req, c_start, c_end, fs, c_cache0,
                   c_hit, c_runs>>

\* the process dies between two steps; the files stay as they are
Crash ==
    /\ c_pc \notin {"idle", "returned", "aborted", "crashed", "in_use"}
    /\ c_pc' = "crashed"
    /\ UNCHANGED <<pvars, avars, ivars, c_entry, c_req, c_start, c_end, fs, c_cache0,
                   c_stores, c_pass, c_ret, c_hit, c_runs>>

----------------------------------------------------------------------------
(* Imputation on values: dataset_utils.py interpolate_nan_values and       *)
(* save_to_cache on a dataset whose series are written out                 *)

\* longest time axis of the datasets drawn
MaxSeriesLen == 3

\* the grid cells of the datasets drawn
Cells == {"y0x0", "y0x1"}

\* integers up to 2^24 are float32 values
Float32Exact == 16777216

\* values of a numeric series: missing, 1.0 and 2^24 + 1, which is a
\* float64 but not a float32
SeriesValues == {NaN, <<1, 1>>, <<Float32Exact + 1, 1>>}

\* astype("float32") of a whole number below 2^25: above 2^24 the even
\* numbers are the float32 values and a tie goes to the even mantissa
RoundFloat32(x) ==
    IF x[2] = 0 \/ x[1] <= Float32Exact \/ x[1] % 2 = 0 THEN x
    ELSE IF ((x[1] - 1) \div 2) % 2 = 0 THEN <<x[1] - 1, 1>>
    ELSE <<x[1] + 1, 1>>

\* np.issubdtype(var.dtype, np.number)
IsNumeric(var) == var.dtype \in {"float64", "float32"}

\* var.isnull().any()
HasNull(var) ==
    \E c \in DOMAIN var.cells : \E k \in DOMAIN var.cells[c] :
        var.cells[c][k] = NaN

\* the valid points of one series along time
ValidIdx(y) == {k \in 1..Len(y) : y[k] # NaN}

\* scipy interp1d(kind="nearest", fill_value="extrapolate") at point k: the
\* nearest valid point, the earlier one when two are as near
NearestValid(y, k) ==
    CHOOSE j \in ValidIdx(y) :
        \A i \in ValidIdx(y) :
            \/ Abs(j - k) < Abs(i - k)
            \/ (Abs(j - k) = Abs(i - k) /\ j <= i)

\* xarray func_interpolate_na, which var.interpolate_na (line 152) applies
\* to every series along time: a series with no missing value, or with
\* fewer than two valid ones, is returned as it is
func_interpolate_na(y) ==
    LET n_nans == Len(y) - Cardinality(ValidIdx(y))
    IN  IF n_nans = 0 \/ n_nans >= Len(y) - 1 THEN y
        ELSE [k \in 1..Len(y) |->
                IF y[k] = NaN THEN y[NearestValid(y, k)] ELSE y[k]]

\* the `variables` argument (line 118): None, or a list of names
NoVariables == [given |-> FALSE, names |-> {}]
VariableList(names) == [given |-> TRUE, names |-> names]

\* lines 144-156: the loop runs over dataset.data_vars; non-numeric
\* variables and variables without a missing value are skipped, the others
\* are interpolated along time. The body never reads `variables`, here
\* variables_arg
interpolate_nan_values(ds, variables_arg) ==
    [name \in DOMAIN ds |->
        IF ~IsNumeric(ds[name]) THEN ds[name]
        ELSE IF ~HasNull(ds[name]) THEN ds[name]
        ELSE [ds[name] EXCEPT !.cells =
                [c \in DOMAIN ds[name].cells |->
                    func_interpolate_na(ds[name].cells[c])]]]

\* save_to_cache lines 192-195: every numeric variable cast to float32
CastFloat32(ds) ==
    [name \in DOMAIN ds |->
        IF ~IsNumeric(ds[name]) THEN ds[name]
        ELSE [dtype |-> "float32",
              cells |-> [c \in DOMAIN ds[name].cells |->
                            [k \in DOMAIN ds[name].cells[c] |->
                                RoundFloat32(ds[name].cells[c][k])]]]]

NoFile == [exists |-> FALSE, ds |-> <<>>]
FileOf(ds) == [exists |-> TRUE, ds |-> ds]

\* the datasets of tests/test_nan_impute.py in small: a float64 variable
\* over the cells and a variable of strings over time
ImputeInit ==
    /\ i_ds \in
          {[temperature |-> [dtype |-> "float64", cells |-> cells],
            non_numeric_var |-> [dtype |-> "object",
                                 cells |-> [c \in {"t"} |-> strs]]] :
             cells \in UNION {[Cells -> [1..T -> SeriesValues]] :
                                 T \in 1..MaxSeriesLen},
             strs \in {<<"event_0">>, <<"">>}}
    /\ i_flag \in BOOLEAN
    /\ i_pc = "start"
    /\ i_out = <<>>
    /\ i_stores = <<>>
    /\ i_file = NoFile
    /\ i_ret = <<>>
    /\ i_variables = NoVariables

ImputeIdle ==
    /\ i_ds = <<>>
    /\ i_flag = FALSE
    /\ i_pc = "off"
    /\ i_out = <<>>
    /\ i_stores = <<>>
    /\ i_file = NoFile
    /\ i_ret = <<>>
    /\ i_variables = NoVariables

\* interpolate_nan_values(dataset) called on its own, as the test does, or
\* with a list of the dataset's variable names
Interpolate ==
    /\ i_pc = "start"
    /\ \E vs \in {NoVariables} \cup
                  {VariableList(names) : names \in SUBSET DOMAIN i_ds} :
          /\ i_variables' = vs
          /\ i_out' = interpolate_nan_values(i_ds, vs)
    /\ i_pc' = "interpolated"
    /\ UNCHANGED <<pvars, avars, cvars, i_ds, i_flag, i_stores, i_file, i_ret>>

\* save_to_cache lines 192-195
CastStores ==
    /\ i_pc = "start"
    /\ i_stores' = CastFloat32(i_ds)
    /\ i_pc' = "save_first"
    /\ UNCHANGED <<pvars, avars, cvars, i_ds, i_flag, i_out, i_file, i_ret, i_variables>>

\* line 198: save_dataset(stores, cached_nc_path)
SaveFirst ==
    /\ i_pc = "save_first"
    /\ i_file' = FileOf(i_stores)
    /\ i_pc' = "open_first"
    /\ UNCHANGED <<pvars, avars, cvars, i_ds, i_flag, i_out, i_stores, i_ret, i_variables>>

\* lines 199-201 and 206: the file is opened again; without interpolate_nans
\* it is what the call returns
OpenFirst ==
    /\ i_pc = "open_first"
    /\ i_stores' = i_file.ds
    /\ IF i_flag
       THEN i_pc' = "interpolate" /\ i_ret' = i_ret
       ELSE i_pc' = "returned" /\ i_ret' = i_file.ds
    /\ UNCHANGED <<pvars, avars, cvars, i_ds, i_flag, i_out, i_file, i_variables>>

\* line 202
InterpolateStores ==
    /\ i_pc = "interpolate"
    /\ i_stores' = interpolate_nan_values(i_stores, NoVariables)
    /\ i_pc' = "save_second"
    /\ UNCHANGED <<pvars, avars, cvars, i_ds, i_flag, i_out, i_file, i_ret, i_variables>>

\* line 203
SaveSecond ==
    /\ i_pc = "save_second"
    /\ i_file' = FileOf(i_stores)
    /\ i_pc' = "open_second"
    /\ UNCHANGED <<pvars, avars, cvars, i_ds, i_flag, i_out, i_stores, i_ret, i_variables>>

\* lines 204-206
OpenSecond ==
    /\ i_pc = "open_second"
    /\ i_stores' = i_file.ds
    /\ i_ret' = i_file.ds
    /\ i_pc' = "returned"
    /\ UNCHANGED <<pvars, avars, cvars, i_ds, i_flag, i_out, i_file, i_variables>>

----------------------------------------------------------------------------
(* Planner on its own: the inputs are drawn in Init, Plan applies it       *)


PlanInit ==
    /\ p_T \in 1..MaxT
    /\ p_step \in 1..MaxStepBytes
    /\ p_avail \in MemAvail
    /\ p_chunks = [chunks |-> <<>>]
    /\ p_pc = "start"

Plan ==
    /\ p_pc = "start"
    /\ p_chunks' = get_index_chunks(p_T, p_T * p_step, p_avail)
    /\ p_pc' = "planned"
    /\ UNCHANGED <<p_T, p_step, p_avail, avars, cvars, ivars>>

PlanIdle ==
    /\ p_T = 1
    /\ p_step = 1
    /\ p_avail = 2
    /\ p_chunks = [chunks |-> <<>>]
    /\ p_pc = "idle"

AggIdle ==
    /\ a_T = 1
    /\ a_base \in {<<<<10, 20>>, <<30, 40>>>>}
    /\ a_gdf = ScenarioTable
    /\ a_cpu = 1
    /\ a_data_vars = {}
    /\ pc = "idle"
    /\ err = "none"
    /\ num_partitions = 0
    /\ cat_chunks = <<>>
    /\ var_i = 1
    /\ time_chunks = <<>>
    /\ chunk_i = 0
    /\ data_chunk = <<>>
    /\ shm = NoShm
    /\ sub_chunks = <<>>
    /\ sub_i = 1
    /\ worker = <<>>
    /\ wres = <<>>
    /\ variable_data = <<>>
    /\ temp_files = NoFiles
    /\ temp_dir = TRUE
    /\ final = Absent
    /\ logged = FALSE

CacheIdle ==
    /\ c_entry = "none"
    /\ c_pc = "off"
    /\ c_req \in {[start |-> 0, end |-> 0, vars |-> {}, source |-> "nwm",
                   interpolate |-> TRUE]}
    /\ c_start = 0
    /\ c_end = 0
    /\ fs = [f \in {"cache", "downloading", "saving"} |-> FAbsent]
    /\ c_cache0 = FAbsent
    /\ c_stores = NoDs
    /\ c_pass = 0
    /\ c_ret = NoDs
    /\ c_hit = FALSE
    /\ c_runs = 0

----------------------------------------------------------------------------
(* One whole run: forcings.py create_forcings and forcing_cli.py main call *)
(* the cache manager and hand the dataset it returns to                    *)
(* compute_zonal_stats                                                     *)

\* the aggregation has not been called yet; the catchments and the machine
\* are known
AggWaiting ==
    /\ a_T = 0
    /\ a_base \in {<<<<10, 20>>, <<30, 40>>>>}
    /\ a_gdf = ScenarioTable
    /\ a_cpu \in 1..MaxCpu
    /\ a_data_vars = {}
    /\ pc = "idle"
    /\ err = "none"
    /\ num_partitions = 0
    /\ cat_chunks = <<>>
    /\ var_i = 1
    /\ time_chunks = <<>>
    /\ chunk_i = 0
    /\ data_chunk = <<>>
    /\ shm = NoShm
    /\ sub_chunks = <<>>
    /\ sub_i = 1
    /\ worker = <<>>
    /\ wres = <<>>
    /\ variable_data = <<>>
    /\ temp_files = NoFiles
    /\ temp_dir = TRUE
    /\ final = Absent
    /\ logged = FALSE

\* the call of the cache manager went past its point of return
CacheResolved_early == c_pc \notin {"idle", "aborted", "crashed", "in_use"}

\* create_forcings line 527, forcing_cli.py lines 93-97: the call of the
\* cache manager has returned the dataset
CacheResolved == c_pc = "returned"

\* create_forcings line 528, forcing_cli.py line 107: compute_zonal_stats is
\* called with the returned dataset, its time axis and its variables
BeginZonalStats ==
    /\ pc = "idle"
    /\ CacheResolved
    /\ a_T' = Cardinality(c_ret.times)
    /\ a_data_vars' = c_ret.vars \cap ModelledVars
    /\ pc' = "weights"
    /\ c_pc' = "in_use"
    /\ UNCHANGED <<pvars, ivars, a_base, a_gdf, a_cpu, err, num_partitions,
                   cat_chunks, var_i, time_chunks, chunk_i, data_chunk, shm,
                   sub_chunks, sub_i, worker, wres, variable_data,
                   temp_files, temp_dir, final, logged, c_entry, c_req,
                   c_start, c_end, fs, c_cache0, c_stores, c_pass, c_ret,
                   c_hit, c_runs>>

----------------------------------------------------------------------------
(* Specifications                                                          *)

PlanNext == Plan

InitPlan == PlanInit /\ AggIdle /\ CacheIdle /\ ImputeIdle

SpecPlan == InitPlan /\ [][PlanNext]_vars

AggNext ==
    \/ ComputeWeights
    \/ SkipVariable
    \/ PlanChunks
    \/ CreateShm
    \/ StagePlan
    \/ StageCopy
    \/ StageCopyRaise
    \/ PoolStart
    \/ \E w \in Workers : WorkerOpen(w)
    \/ \E w \in Workers : WorkerCompute(w)
    \/ \E w \in Workers : WorkerClose(w)
    \/ \E w \in Workers : WorkerRaise(w)
    \/ PoolJoin
    \/ PoolRaise
    \/ ShmClose
    \/ ShmUnlink
    \/ Persist
    \/ PersistRaise
    \/ MergeVariable
    \/ MergeRaise
    \/ LogComplete
    \/ WriteFinalBegin
    \/ WriteFinalEnd
    \/ WriteFinalRaise
    \/ Cleanup


InitAgg == AggInit /\ PlanIdle /\ CacheIdle /\ ImputeIdle

SpecAgg == InitAgg /\ [][AggNext]_vars

\* a run for the question of termination: every time length, CPU count and
\* set of variables, on the weight table of two catchments and one grid
\* (the values aggregated decide no branch of the run)
InitAggFair ==
    /\ InitAgg
    /\ Len(a_gdf) = 2
    /\ a_base = <<<<10, 20>>, <<30, 40>>>>
    /\ temp_files = NoFiles

\* the driver is one sequential process that always takes its next step,
\* and a worker that has been handed a partition eventually returns or
\* raises: whenever a step of the run is possible, one is taken
SpecAggFair == InitAggFair /\ [][AggNext]_vars /\ WF_vars(AggNext)

CacheNext ==
    \/ StartRun
    \/ ZCheck
    \/ ZLoad
    \/ ZLoadRaise
    \/ ZWriteBegin
    \/ ZWriteEnd
    \/ ZWriteRaise
    \/ ZRename
    \/ ZReturn
    \/ LCheck
    \/ SaveBegin
    \/ SaveEnd
    \/ SaveRaise
    \/ SaveRename
    \/ Reopen
    \/ Crash

InitCache == CacheInit /\ PlanIdle /\ AggIdle /\ ImputeIdle

SpecCache == InitCache /\ [][CacheNext]_vars

RunNext ==
    \/ CacheNext
    \/ BeginZonalStats
    \/ AggNext

InitRun == CacheInit /\ PlanIdle /\ AggWaiting /\ ImputeIdle

SpecRun == InitRun /\ [][RunNext]_vars

ImputeNext ==
    \/ Interpolate
    \/ CastStores
    \/ SaveFirst
    \/ OpenFirst
    \/ InterpolateStores
    \/ SaveSecond
    \/ OpenSecond

InitImpute == ImputeInit /\ PlanIdle /\ AggIdle /\ CacheIdle

SpecImpute == InitImpute /\ [][ImputeNext]_vars


----------------------------------------------------------------------------
(* Claims about the chunk planner                                          *)

\* C1: whenever get_index_chunks returns a list (stride >= 1), the first
\* range starts at 0, every range starts where the previous one ended, and
\* the last range ends exactly at the time length T
C1_RangesCoverExactly ==
    (p_pc = "planned" /\ ~IsError(p_chunks)) =>
        LET c == p_chunks.chunks
        IN  /\ Len(c) >= 1
            /\ c[1][1] = 0
            /\ \A i \in 1..(Len(c) - 1) : c[i + 1][1] = c[i][2]
            /\ c[Len(c)][2] = p_T

----------------------------------------------------------------------------
(* Claims about the aggregation                                            *)

\* the value of a cell of the gridded variable v at time index t
GridWidth == Len(a_base[1])
CellValue(v, t, cell) ==
    SourceStep(a_base, v, t)[(cell \div GridWidth) + 1][(cell % GridWidth) + 1]

\* sum over the cells i..n of a weight row of value x coverage, and of the
\* coverage
RECURSIVE RefWeighted(_, _, _, _)
RefWeighted(row, v, t, i) ==
    IF i > Len(row.cell_id) THEN 0
    ELSE CellValue(v, t, row.cell_id[i]) * row.coverage[i]
            + RefWeighted(row, v, t, i + 1)

RECURSIVE RefCoverage(_, _)
RefCoverage(row, i) ==
    IF i > Len(row.coverage) THEN 0
    ELSE row.coverage[i] + RefCoverage(row, i + 1)

\* the fraction x equals num / den
IsRatio(x, num, den) == x[2] > 0 /\ x[1] * den = x[2] * num

\* the workers whose result of the current chunk is there
Computed ==
    IF pc \in {"map", "close", "unlink", "persist"}
    THEN {w \in DOMAIN worker : worker[w] \in {"computed", "done"}}
    ELSE {}

\* C2: for every catchment of positive total coverage and every timestep of
\* the chunk, the value a worker computed is the sum over the catchment's
\* cells of value[t, cell] x coverage[cell] divided by the sum of the
\* coverage, taken at that timestep of the gridded variable
C2_WeightedMean ==
    \A w \in Computed :
        /\ wres[w].cats = [k \in 1..Len(cat_chunks[w]) |-> cat_chunks[w][k].id]
        /\ wres[w].times = data_chunk
        /\ \A k \in 1..Len(cat_chunks[w]) :
              LET row == cat_chunks[w][k]
              IN  RefCoverage(row, 1) > 0 =>
                    /\ Len(wres[w].vals[k]) = Len(data_chunk)
                    /\ \A t \in 1..Len(data_chunk) :
                          IsRatio(wres[w].vals[k][t],
                                  RefWeighted(row, variable, data_chunk[t], 1),
                                  RefCoverage(row, 1))

\* a worker has computed a catchment with several cells of unequal
\* coverage, in a chunk of two timesteps that is not the first one
C2_Witness ==
    \E w \in Computed :
        /\ chunk_i >= 1
        /\ Len(data_chunk) >= 2
        /\ \E k \in 1..Len(cat_chunks[w]) :
              LET row == cat_chunks[w][k]
              IN  /\ Len(row.cell_id) >= 2
                  /\ row.coverage[1] # row.coverage[2]

\* the 2x2 scenario: values 10, 20, 30, 40 at a single timestep, weights
\* A:{0:0.5, 1:0.5}, B:{2:1.0}, C:{3:0.25, 1:0.25}, persisted for the
\* variable that carries these values
ScenarioPersisted ==
    /\ a_T = 1
    /\ a_base = <<<<10, 20>>, <<30, 40>>>>
    /\ a_gdf = ScenarioTable
    /\ PartialName("RAINRATE", 0) \in DOMAIN temp_files

ScenarioValue(id) ==
    LET da == temp_files[PartialName("RAINRATE", 0)]
        k == CHOOSE j \in 1..Len(da.cats) : da.cats[j] = id
    IN  da.vals[k]

\* C3 as stated: the scenario yields A = 15.0, B = 30.0 and C = 35.0
C3_ScenarioAsStated ==
    ScenarioPersisted =>
        /\ ScenarioValue("A") = <<<<15, 1>>>>
        /\ ScenarioValue("B") = <<<<30, 1>>>>
        /\ ScenarioValue("C") = <<<<35, 1>>>>

\* C3 amended: the scenario yields A = 15.0, B = 30.0 and C = 30.0
C3_Scenario ==
    ScenarioPersisted =>
        /\ temp_files[PartialName("RAINRATE", 0)].cats = <<"A", "B", "C">>
        /\ ScenarioValue("A") = <<<<15, 1>>>>
        /\ ScenarioValue("B") = <<<<30, 1>>>>
        /\ ScenarioValue("C") = <<<<30, 1>>>>

C3_Witness == ScenarioPersisted /\ num_partitions = 2

\* the rows of a partition with a zero total coverage, and the others
ZeroRows(chunk) == {k \in 1..Len(chunk) : RefCoverage(chunk[k], 1) = 0}
WithoutZeroRows(chunk) ==
    SelectSeq(chunk, LAMBDA row : RefCoverage(row, 1) # 0)

\* the time steps of the current chunk read from the gridded variable
SourceRaster ==
    [t \in 1..Len(data_chunk) |->
        Flat(SourceStep(a_base, variable, data_chunk[t]))]

\* C4: a catchment whose coverage sums to zero gets the missing value at
\* every timestep; computing it never fails the worker, and the other
\* catchments of the partition get the values they get without it
C4_ZeroWeightIsMissing ==
    /\ \A w \in DOMAIN wres : wres[w] = NoResult \/ ~IsError(wres[w])
    /\ \A w \in Computed :
          /\ Len(wres[w].cats) = Len(cat_chunks[w])
          /\ \A k \in ZeroRows(cat_chunks[w]) :
                /\ Len(wres[w].vals[k]) = Len(data_chunk)
                /\ \A t \in 1..Len(data_chunk) : wres[w].vals[k][t] = NaN
          /\ (ZeroRows(cat_chunks[w]) # {}
                /\ WithoutZeroRows(cat_chunks[w]) # <<>>) =>
                LET alone == process_chunk_shared(
                                data_chunk, SourceRaster,
                                WithoutZeroRows(cat_chunks[w]))
                IN  \A j \in 1..Len(alone.cats) :
                        \E k \in 1..Len(wres[w].cats) :
                            /\ wres[w].cats[k] = alone.cats[j]
                            /\ wres[w].vals[k] = alone.vals[j]

\* a worker has computed a partition that holds a zero-weight catchment
\* next to another catchment
C4_Witness ==
    \E w \in Computed :
        /\ ZeroRows(cat_chunks[w]) # {}
        /\ WithoutZeroRows(cat_chunks[w]) # <<>>
        /\ \E k \in ZeroRows(cat_chunks[w]) : cat_chunks[w][k].cell_id = <<>>

\* the whole time axis of v aggregated in one chunk
SingleChunk(v) ==
    LET times == [t \in 1..a_T |-> t - 1]
        raster == [t \in 1..a_T |-> Flat(SourceStep(a_base, v, t - 1))]
    IN  ConcatCatchment(
            [w \in 1..num_partitions |->
                process_chunk_shared(times, raster, cat_chunks[w])])

\* C5: whatever chunks the planner made, the merged series of a variable
\* is the series obtained by aggregating its whole time axis in one chunk
C5_ChunkingInvariance ==
    \A v \in ModelledVars :
        MergedName(v) \in DOMAIN temp_files =>
            temp_files[MergedName(v)] = SingleChunk(v)

\* a variable was merged from several chunks, the last of them planned
\* past the end of the time axis
C5_Witness ==
    /\ pc = "next_var"
    /\ var_i > 1
    /\ MergedName(variables[var_i - 1]) \in DOMAIN temp_files
    /\ Len(time_chunks) >= 3
    /\ time_chunks[Len(time_chunks)][2] > a_T

\* C6: the region of a chunk is closed and unlinked on every exit path: no
\* region exists when the driver is at the head of the chunk loop or when
\* compute_zonal_stats has ended, normally or by an exception
C6_RegionAlwaysReleased ==
    pc \in {"chunk", "next_var", "write_outputs", "done", "aborted"} =>
        (~shm.linked /\ ~shm.open)

\* a worker holds the region of the current chunk open
HasOpen(w) == worker[w] \in {"open", "computed"}

\* C7: while a worker has the region open the driver leaves it alone; the
\* region is written only before the pool of the chunk starts, and it is
\* closed and unlinked only after every worker of the chunk has finished
C7_OneWriterThenReaders ==
    [][ /\ (\E w \in DOMAIN worker : HasOpen(w)) => shm' = shm
        /\ shm'.buf # shm.buf =>
              (pc \in {"chunk", "stage_copy"} /\ pc' # "map")
        /\ ((shm.linked /\ ~shm'.linked) \/ (shm.open /\ ~shm'.open)) =>
              (\A w \in Workers : worker[w] = "done") ]_vars

\* two workers of one chunk: one holds the region open while the other has
\* already returned
C7_Witness ==
    /\ pc = "map"
    /\ shm.linked
    /\ \E w1, w2 \in Workers :
          HasOpen(w1) /\ worker[w2] = "done"

----------------------------------------------------------------------------
(* Claims about the cache manager                                          *)

\* the cache file the run found holds a dataset whose time range does not
\* cover the request
StaleAtStart ==
    /\ c_cache0.state = "complete"
    /\ c_cache0.ds.times # {}
    /\ \/ c_req.start < SetMin(c_cache0.ds.times)
       \/ c_req.end > SetMax(c_cache0.ds.times)

\* what the source holds of the requested range
RequestedFromSource == {t \in SourceTimes : c_req.start <= t /\ t <= c_req.end}

SourceOfRun ==
    IF c_entry = "zarr" THEN ZarrSource(c_req.vars, 0)
    ELSE CliSource(c_req.source, 0)

\* the three checks on a cache file: source name, time range, variables
ChecksHold(file) ==
    /\ file.state = "complete"
    /\ file.ds.name = SourceOfRun.name
    /\ file.ds.times # {}
    /\ SetMin(file.ds.times) <= c_req.start
    /\ SetMax(file.ds.times) >= c_req.end
    /\ SourceOfRun.vars \subseteq file.ds.vars

\* C9: a run returns the data of the cache file it found only if the three
\* checks hold on that file; if one of them fails, the run ends with the
\* old file gone and the data fetched again
C9_HitOnlyIfChecksHold ==
    c_pc = "returned" =>
        /\ c_hit => ChecksHold(c_cache0)
        /\ (c_cache0.state = "complete" /\ ~ChecksHold(c_cache0)) =>
              (~c_hit /\ c_ret.run = c_runs /\ fs["cache"] = FComplete(c_ret))

\* C10: whatever step a cache write or a crash has reached, a file under
\* the cache name is a completely written dataset
C10_CacheNeverPartial == fs["cache"].state # "partial"

\* the process died while the temporary file was half written, next to a
\* cache file of an earlier run
C10_Witness ==
    /\ c_pc = "crashed"
    /\ fs["cache"].state = "complete"
    /\ fs[SavingPath].state = "partial" \/ fs[DownloadingPath].state = "partial"

\* C11: the dataset a run returns, from the cache file or fetched again,
\* starts at or before the requested start and ends at or after the
\* requested end
C11_ReturnedCoversRequest ==
    c_pc = "returned" =>
        /\ c_ret.times # {}
        /\ SetMin(c_ret.times) <= c_req.start
        /\ SetMax(c_ret.times) >= c_req.end

----------------------------------------------------------------------------
(* Claims about the output assembly and the order of the run               *)

\* C12: at every step of the run, also after a failure of the final write,
\* the file under the final name forcings.nc is either absent or completely
\* written
C12_FinalNeverPartial == final.state # "partial"

\* C13: the message "Forcing generation complete" has been logged only when
\* the final file is completely written and the temp directory is removed
C13_SuccessAfterCleanup ==
    logged => (final.state = "complete" /\ ~temp_dir)

\* a step removes the temp directory or a merged per-variable file
ScratchRemoved ==
    \/ temp_dir /\ ~temp_dir'
    \/ \E name \in DOMAIN temp_files :
          ~MatchesPartialGlob(name) /\ name \notin DOMAIN temp_files'

\* a step ends the run with an exception
RunFails == pc # "aborted" /\ pc' = "aborted"

\* C14: the temp directory and the merged per-variable files are removed
\* only by a step taken after forcings.nc was completely written, and a
\* step that fails the run leaves the temp directory and every file in it
\* as they were
C14_ScratchKeptUntilFinal ==
    [][/\ ScratchRemoved => final.state = "complete"
       /\ RunFails => (temp_dir' /\ temp_files' = temp_files)]_vars

\* the run failed while a merged file of an earlier variable and a chunk
\* partial of the current one were in the temp directory, and both are
\* still there
C14_Witness ==
    /\ pc = "aborted"
    /\ temp_dir
    /\ \E m, n \in DOMAIN temp_files :
          ~MatchesPartialGlob(m) /\ MatchesPartialGlob(n)

\* the driver is inside the chunk loop of the current variable
InChunkLoop ==
    pc \in {"chunk", "stage_plan", "stage_copy", "map", "close", "unlink",
            "persist"}

\* indices of the chunk partials of v in the temp directory
PartialsOf(v) ==
    {name.i : name \in {m \in DOMAIN temp_files :
                            m.var = v /\ MatchesPartialGlob(m)}}

\* C15: inside the chunk loop the partials written for the variable are
\* those of the chunks 0 .. chunk_i - 1, each holding the timesteps of its
\* chunk, so chunks are persisted one at a time in increasing index; and
\* the time axis of every merged file is 0, 1, .., T - 1, every timestep
\* once and in increasing order
C15_ChunksInOrder ==
    /\ InChunkLoop =>
          /\ PartialsOf(variable) = 0..(chunk_i - 1)
          /\ \A i \in PartialsOf(variable) :
                temp_files[PartialName(variable, i)].times =
                    SortedSeq(SliceIndices(time_chunks[i + 1][1],
                                           time_chunks[i + 1][2], a_T))
    /\ \A v \in ModelledVars :
          MergedName(v) \in DOMAIN temp_files =>
              temp_files[MergedName(v)].times = [k \in 1..a_T |-> k - 1]

\* the second variable was merged from three chunks or more after the
\* first one was merged
C15_Witness ==
    /\ pc = "next_var"
    /\ var_i = 3
    /\ Len(time_chunks) >= 3
    /\ \A v \in ModelledVars : MergedName(v) \in DOMAIN temp_files

\* the order of the stages of one run, as steps of the driver's position
StageOrder ==
    {<<"idle", "weights">>, <<"weights", "next_var">>,
     <<"next_var", "chunk">>, <<"chunk", "stage_plan">>,
     <<"stage_plan", "stage_copy">>, <<"stage_copy", "map">>,
     <<"map", "close">>, <<"close", "unlink">>, <<"unlink", "persist">>,
     <<"persist", "chunk">>, <<"chunk", "next_var">>,
     <<"next_var", "write_outputs">>, <<"write_outputs", "final_write">>,
     <<"final_write", "cleanup">>, <<"cleanup", "done">>}

\* the cache manager has handed over a dataset: the content of the cache
\* file it found, or what it fetched and wrote to the cache file
CacheHandedOver ==
    /\ c_pc = "in_use"
    /\ c_ret # NoDs
    /\ c_hit \/ fs["cache"] = FComplete(c_ret)

\* C16: a run takes its stages in the order of the run state machine: the
\* driver's position moves only along StageOrder or to a failure; the
\* aggregation starts after the cache manager has returned; the weight
\* table is written once, by the weights stage, before any region or
\* scratch file exists; a variable is merged when all its chunks are
\* persisted; the output assembly starts when every variable of the
\* dataset is merged; DONE follows a complete final file
C16_StagesInOrder ==
    [][/\ pc' # pc => (<<pc, pc'>> \in StageOrder \/ pc' = "aborted")
       /\ (pc = "idle" /\ pc' # "idle") => c_pc = "returned"
       /\ pc' # "idle" => CacheHandedOver'
       /\ cat_chunks' # cat_chunks => (pc = "weights" /\ cat_chunks = <<>>)
       /\ pc' \in {"idle", "weights"} =>
             (~shm'.linked /\ temp_files' = NoFiles)
       /\ (pc = "chunk" /\ pc' = "next_var") =>
             PartialsOf(variable) = 0..(Len(time_chunks) - 1)
       /\ pc' = "write_outputs" =>
             \A k \in 1..Len(variables) :
                 variables[k] \in a_data_vars =>
                     MergedName(variables[k]) \in DOMAIN temp_files'
       /\ pc' = "done" => final'.state = "complete"]_vars

\* a run that missed the cache, fetched and wrote it, and went through
\* every stage up to DONE with a variable skipped and one merged from two
\* chunks
C16_Witness ==
    /\ pc = "done"
    /\ c_pc = "in_use"
    /\ ~c_hit
    /\ a_data_vars = {"RAINRATE"}
    /\ Len(time_chunks) = 2

----------------------------------------------------------------------------
(* Claims about the planner's errors                                       *)

\* C17: when the planner needs more chunks than there are timesteps, so
\* that the stride is 0, the call ends with the error
\* MemoryBudgetExceeded and no list of chunks
C17_BudgetErrorReported ==
    (p_pc = "planned" /\ NumChunks(p_T * p_step, p_avail) > p_T) =>
        p_chunks = Raised("MemoryBudgetExceeded")

----------------------------------------------------------------------------
(* Claims about repeated runs                                              *)

\* the final dataset as a function of the dataset, the catchments and the
\* time axis alone: every variable of the dataset aggregated over the
\* whole table and the whole time axis at once
ReferenceFinal ==
    LET times == [t \in 1..a_T |-> t - 1]
        series(v) ==
            process_chunk_shared(
                times, [t \in 1..a_T |-> Flat(SourceStep(a_base, v, t - 1))],
                a_gdf).vals
        outs == {Rename(v) : v \in a_data_vars} \cup {"APCP_surface"}
    IN  [state |-> "complete",
         ids  |-> [k \in 1..Len(a_gdf) |-> a_gdf[k].id],
         Time |-> [k \in 1..Len(a_gdf) |-> times],
         data |-> [o \in outs |->
                     IF o = "APCP_surface"
                     THEN ScaleVals(series("RAINRATE"), PrecipFactor)
                     ELSE series(CHOOSE v \in a_data_vars : Rename(v) = o)]]

\* C18: the final file of a run is determined by the dataset, the
\* catchments and the time range: any two runs on the same three produce
\* the same ids, Time, variables and values, whatever memory was
\* available, however many workers ran and whatever the temp directory
\* listed
C18_SameInputsSameFinal ==
    final.state = "complete" => final = ReferenceFinal

----------------------------------------------------------------------------
(* Claims about the imputation                                             *)

\* the positions of the missing values of a numeric variable
NullPositions(var) ==
    {<<c, k>> \in (DOMAIN var.cells) \X (1..MaxSeriesLen) :
        k \in DOMAIN var.cells[c] /\ var.cells[c][k] = NaN}

\* C19: after interpolate_nan_values with the default arguments, every
\* series of a numeric variable that had a valid value has no missing
\* value, also when its first or last value was missing; a non-numeric
\* variable and a variable without missing values are as they were
C19_InterpolationFillsSeries ==
    i_pc = "interpolated" =>
        \A name \in DOMAIN i_ds :
            /\ IsNumeric(i_ds[name]) =>
                  \A c \in DOMAIN i_ds[name].cells :
                      ValidIdx(i_ds[name].cells[c]) # {} =>
                          ValidIdx(i_out[name].cells[c]) =
                              DOMAIN i_out[name].cells[c]
            /\ ~IsNumeric(i_ds[name]) => i_out[name] = i_ds[name]
            /\ (IsNumeric(i_ds[name]) /\ ~HasNull(i_ds[name])) =>
                  i_out[name] = i_ds[name]

\* C20: after save_to_cache has returned, the cache file exists, its
\* numeric variables are float32, and with interpolate_nans no numeric
\* variable has a missing value, without it the missing values are where
\* they were in the dataset passed in
C20_CacheFollowsFlag ==
    i_pc = "returned" =>
        /\ i_file.exists
        /\ \A name \in DOMAIN i_ds :
              IsNumeric(i_ds[name]) =>
                  /\ i_file.ds[name].dtype = "float32"
                  /\ i_flag => NullPositions(i_file.ds[name]) = {}
                  /\ ~i_flag => NullPositions(i_file.ds[name]) =
                                    NullPositions(i_ds[name])

\* the divide_ids of the weight table, in its order
CatchmentIds(gdf) == [k \in 1..Len(gdf) |-> gdf[k].id]

\* a worker of the current chunk has raised or was terminated
TaskFailed == \E w \in DOMAIN worker : worker[w] \in {"failed", "terminated"}

\* the partial results on disk
PersistedPartials ==
    {name \in DOMAIN temp_files :
        MatchesPartialGlob(name) /\ name.var \in ModelledVars}

\* C21: once a worker of a chunk has raised, the driver is still in the
\* pool or the run has aborted, no partial result of that (variable,
\* chunk) is on disk, and every partial result on disk holds every
\* catchment of the weight table
C21_FailedChunkNotPersisted ==
    /\ TaskFailed =>
          /\ pc \in {"map", "aborted"}
          /\ PartialName(variable, chunk_i) \notin DOMAIN temp_files
    /\ \A name \in PersistedPartials :
          temp_files[name].cats = CatchmentIds(a_gdf)

C21_Witness ==
    /\ pc = "aborted"
    /\ err = "WorkerError"
    /\ \E w \in DOMAIN worker : worker[w] = "failed"
    /\ \E w \in DOMAIN worker : worker[w] = "done"
    /\ chunk_i >= 1
    /\ PartialName(variable, 0) \in DOMAIN temp_files

\* the divide_ids of one partition
IdsOfPartition(chunk) == {chunk[k].id : k \in 1..Len(chunk)}

\* the raster of the timesteps `times` of variable v, as (time, cell)
RasterOf(v, times) ==
    [j \in 1..Len(times) |-> Reshape(SourceStep(a_base, v, times[j]))]

\* C22: while the workers of a chunk run, the partitions are pairwise
\* disjoint and together are the weight table, one partition per worker;
\* in every partial result on disk each divide_id of the weight table
\* appears exactly once and its value is the aggregate over all cells of
\* its row
C22_PartitionsCoverOnce ==
    /\ pc = "map" =>
          /\ Len(cat_chunks) = num_partitions
          /\ DOMAIN worker = 1..num_partitions
          /\ Flat(cat_chunks) = a_gdf
          /\ \A i, j \in 1..Len(cat_chunks) :
                i # j => IdsOfPartition(cat_chunks[i])
                            \cap IdsOfPartition(cat_chunks[j]) = {}
    /\ \A name \in PersistedPartials :
          LET f == temp_files[name]
          IN  \A k \in 1..Len(a_gdf) :
                 LET at == {j \in 1..Len(f.cats) : f.cats[j] = a_gdf[k].id}
                 IN  /\ Cardinality(at) = 1
                     /\ \A j \in at :
                           f.vals[j] = weighted_sum_of_cells(
                                          RasterOf(name.var, f.times),
                                          a_gdf[k].cell_id,
                                          a_gdf[k].coverage)

C22_Witness ==
    /\ pc = "map"
    /\ num_partitions = 2
    /\ Len(a_gdf) = 3
    /\ chunk_i >= 1
    /\ PartialName(variable, 0) \in PersistedPartials

\* the planner has returned a list of chunks
PlannerReturned == p_pc = "planned" /\ ~IsError(p_chunks)

\* C23: every chunk the planner returns fits the budget: its length times
\* the bytes of one timestep is at most min(80% of the available memory,
\* 20 GB); the two sides are compared in fifths
C23_ChunkFitsBudget ==
    PlannerReturned =>
        \A i \in 1..Len(p_chunks.chunks) :
            5 * (p_chunks.chunks[i][2] - p_chunks.chunks[i][1]) * p_step
                <= FreeMemory5(p_avail)

C23_Witness ==
    /\ PlannerReturned
    /\ Len(p_chunks.chunks) >= 2
    /\ p_chunks.chunks[1][2] - p_chunks.chunks[1][1] >= 2
    /\ 5 * p_T * p_step > FreeMemory5(p_avail)

\* C24: when interpolate_nan_values is given a list of names, every
\* variable not in the list is as it was, missing values included
C24_OnlyListedVariables ==
    (i_pc = "interpolated" /\ i_variables.given) =>
        \A name \in DOMAIN i_ds :
            name \notin i_variables.names => i_out[name] = i_ds[name]

\* the request of the current run ends after the source does, and the
\* cache found at the start of the run holds the request clamped to the
\* source, with every requested variable
ClampedRequestCached ==
    /\ c_entry = "zarr"
    /\ c_req.end > SetMax(SourceTimes)
    /\ c_cache0.state = "complete"
    /\ c_cache0.ds.times # {}
    /\ LET v == validate_time_range(ZarrSource({}, c_runs),
                                    c_req.start, c_req.end)
       IN  range_in_cache_zarr(c_cache0.ds, v[1], v[2])
    /\ missing_vars_zarr(c_req.vars, c_cache0.ds) = {}

\* C25: a request that ends after the source does, with the clamped range
\* already cached, is a cache hit: past the check the cache file is the one
\* found, and the source is not loaded again
C25_ClampedRequestReusesCache ==
    (ClampedRequestCached
        /\ c_pc \in {"z_load", "z_write_begin", "returned"}) =>
        /\ c_hit
        /\ fs["cache"] = c_cache0

\* C26: once the partition count is computed it is min(cpu_count - 1,
\* number of catchments) and at least 1, and the split of the catchments
\* does not fail for want of a partition
C26_AtLeastOnePartition ==
    pc \notin {"idle", "weights"} =>
        /\ num_partitions = Min(a_cpu - 1, Len(a_gdf))
        /\ num_partitions >= 1
        /\ ~(pc = "aborted" /\ err = "ValueError" /\ cat_chunks = <<>>)

\* the cache path holds the dataset of the second save of the current
\* call, the one written after interpolate_nan_values
HoldsInterpolated == c_pass = 2 /\ fs["cache"] = FComplete(c_stores)

\* C27: during and after a save_to_cache with interpolate_nans, a crash
\* included, the cache path is absent, holds the file found at the start
\* of the run, or holds the interpolated dataset; it never holds a dataset
\* of this run with the missing values of the source in it
C27_CacheNeverUninterpolated ==
    (c_entry = "cli" /\ c_runs >= 1 /\ c_req.interpolate) =>
        \/ fs["cache"] = FAbsent
        \/ fs["cache"] = c_cache0
        \/ HoldsInterpolated
        \/ (fs["cache"].state = "complete" /\ ~fs["cache"].ds.nans)

\* C28: the final file of a run that succeeds holds only variables this
\* run aggregated from its dataset (and APCP_surface derived from them),
\* also when an earlier run that aborted left files in the temp directory
C28_NoStaleScratchInFinal ==
    final.state = "complete" =>
        \A o \in DOMAIN final.data :
            \/ o = "APCP_surface"
            \/ \E v \in a_data_vars : Rename(v) = o

\* C29: when the dataset holds a non-empty subset of the variables of the
\* table, the absent ones are skipped and no step of the run fails for
\* want of a variable: the weights are computed and the final file is
\* assembled from the variables present
C29_SubsetRunCompletes ==
    (a_data_vars # {} /\ pc = "aborted") => err # "KeyError"

----------------------------------------------------------------------------
(* Claims about termination                                                *)

\* the run is over: the final file is written and the scratch removed, or
\* an error has left compute_zonal_stats
RunOver == pc \in {"done", "aborted"}

\* C30: when every step that can be taken is eventually taken, a run
\* reaches DONE or aborts with an error, for every number of variables,
\* time length and chunking
C30_RunTerminates == <>RunOver

C30_Witness ==
    /\ pc = "done"
    /\ final.state = "complete"
    /\ a_data_vars = ModelledVars
    /\ Len(time_chunks) >= 2
    /\ Len(sub_chunks) >= 2
    /\ num_partitions = 2

====
